---- MODULE Spec2Model ----
(***************************************************************************)
(* Internal-Link-Finder: the related-page similarity engine, the GSC       *)
(* metrics aggregator, the link analyzer and the opportunity scorer, as    *)
(* state machines.                                                         *)
(*                                                                         *)
(* An ordered Python dict is a sequence of records in insertion order; a   *)
(* DataFrame is a sequence of row records in index order.  URLs are small  *)
(* integers, so that pandas' groupby key sort has an order to sort by.     *)
(***************************************************************************)
EXTENDS Integers, Sequences, FiniteSets, TLC

VARIABLES
    embeddings_map,     \* SimilarityEngine input: <<[url, vec], ...>> in dict order
    top_k,              \* SimilarityEngine input
    related_pages_map,  \* SimilarityEngine output: <<[url, related], ...>>
    gsc_data,           \* GSC log: <<[page, query, clicks, impressions], ...>>
    top_n,              \* extract_top_keywords_by_url input
    gsc_metrics_df,     \* calculate_url_metrics output rows
    url_keywords_map,   \* extract_top_keywords_by_url output: <<[page, kws], ...>>
    search_volume_map,  \* keyword -> volume, a function on the keys present
    links_df,           \* link edges: <<[Source, Destination], ...>>
    top_related,        \* analyze_with_performance_data input
    analysis_df,        \* analyze_with_performance_data output rows
    scored_df,          \* score_opportunities output rows
    none_frames,        \* the names of the frames above that are None (their value is <<>>)
    op,                 \* the operation that returned last ("none" before any call)
    calls               \* the operations that have returned, oldest first

vars == <<embeddings_map, top_k, related_pages_map, gsc_data, top_n,
          gsc_metrics_df, url_keywords_map, search_volume_map, links_df,
          top_related, analysis_df, scored_df, none_frames, op, calls>>

(***************************************************************************)
(* Bounds of the model.                                                    *)
(***************************************************************************)
MaxPages == 3       \* pages in one embedding set
MaxTopK == 3        \* largest top_k tried (0 is the smallest)
MaxRecords == 3     \* records in one GSC log
MaxTopN == 2        \* largest top_n tried (0 is the smallest)
MaxKeywords == 2    \* keywords of one page in the keyword map
MaxComposeKeys == 2 \* keys of a related-pages map given to the analyzer
MaxLinks == 1       \* link edges given to the analyzer
MaxTopRelated == 3  \* largest top_related tried (0 is the smallest)
MaxRows == 3        \* rows of a table given to the scorer
MaxRepeatRecords == 2 \* records of a log that is processed repeatedly
MaxCalls == 3       \* calls made on one log
MaxSessionCalls == 4 \* button clicks of one application session

(***************************************************************************)
(* Generic helpers.                                                        *)
(***************************************************************************)
Range(s) == {s[i] : i \in 1..Len(s)}

Min(a, b) == IF a <= b THEN a ELSE b

Injective(s) == \A i, j \in 1..Len(s) : s[i] = s[j] => i = j

\* all orders in which the numbers 1..n can be listed
Perms(n) == {p \in [1..n -> 1..n] : \A i, j \in 1..n : p[i] = p[j] => i = j}

\* lexicographic order on integer triples
LexLess(a, b) ==
    \/ a[1] < b[1]
    \/ a[1] = b[1] /\ a[2] < b[2]
    \/ a[1] = b[1] /\ a[2] = b[2] /\ a[3] < b[3]

(***************************************************************************)
(* SimilarityEngine.compute_related_pages (src/core/similarity_engine.py). *)
(*                                                                         *)
(* Vectors are integer vectors whose Euclidean norm is an integer, so that *)
(* v / (norm(v) + 1e-8) is a rational and the dot products of normalised   *)
(* vectors are compared exactly.  With e = 1e-8,                           *)
(*   sims[i][j] = dot(v_i, v_j) / ((n_i + e) * (n_j + e)),                 *)
(* and sims[i][j] < sims[k][l] iff                                         *)
(*   dot_ij * (n_k + e)(n_l + e) < dot_kl * (n_i + e)(n_j + e).            *)
(* Each side is a polynomial c0 + c1*e + c2*e^2 with integer coefficients  *)
(* far below 1/e = 10^8, so the order of the two values is the             *)
(* lexicographic order of <<c0, c1, c2>>.  Floating-point rounding is not  *)
(* modelled.                                                               *)
(***************************************************************************)
Vecs == {<<0, 0>>, <<3, 4>>, <<4, 3>>, <<6, 8>>, <<-3, -4>>}

Abs(x) == IF x < 0 THEN -x ELSE x

\* np.linalg.norm(v) on a vector whose norm is an integer
Norm(v) == CHOOSE n \in 0..(Abs(v[1]) + Abs(v[2])) : n * n = v[1] * v[1] + v[2] * v[2]

Dot(v, w) == v[1] * w[1] + v[2] * w[2]

\* d * (a + e) * (b + e) as the coefficients of 1, e, e^2
EpsPoly(d, a, b) == <<d * a * b, d * (a + b), d>>

urls(emb) == [i \in 1..Len(emb) |-> emb[i].url]

vecs(emb) == [i \in 1..Len(emb) |-> emb[i].vec]

\* variant: sims = mat @ vecs.T, only the left vector normalised:
\* sims[i][j] = dot(v_i, v_j) / (n_i + e)
SimLessLeftNormalised(emb, i, j, k, l) ==
    LET v == vecs(emb)
    IN  LexLess(<<Dot(v[i], v[j]) * Norm(v[k]), Dot(v[i], v[j]), 0>>,
                <<Dot(v[k], v[l]) * Norm(v[i]), Dot(v[k], v[l]), 0>>)

\* sims = mat @ mat.T with mat[i] = v_i / (norm(v_i) + 1e-8): sims[i][j] < sims[k][l]
SimLess(emb, i, j, k, l) ==
    LET v == vecs(emb)
    IN  LexLess(EpsPoly(Dot(v[i], v[j]), Norm(v[k]), Norm(v[l])),
                EpsPoly(Dot(v[k], v[l]), Norm(v[i]), Norm(v[j])))

SimEq(emb, i, j, k, l) ==
    ~SimLess(emb, i, j, k, l) /\ ~SimLess(emb, k, l, i, j)

\* variant: np.argsort(sims[i]), least similar first
argsort_ascending(emb, i) ==
    {p \in Perms(Len(emb)) :
        \A a, b \in 1..Len(emb) : a < b => ~SimLess(emb, i, p[b], i, p[a])}

\* np.argsort(-sims[i]) with the default kind (quicksort, not stable): any
\* order of the indices along which -sims[i] never decreases
argsort(emb, i) ==
    {p \in Perms(Len(emb)) :
        \A a, b \in 1..Len(emb) : a < b => ~SimLess(emb, i, p[a], i, p[b])}

\* variant: the loop without the test `j == i`
RECURSIVE candidates_keep_self(_, _, _, _, _, _)
candidates_keep_self(emb, k, i, idxs, pos, candidates) ==
    IF pos > Len(idxs) THEN candidates
    ELSE LET c == Append(candidates, urls(emb)[idxs[pos]])
         IN  IF Len(c) >= k THEN c
             ELSE candidates_keep_self(emb, k, i, idxs, pos + 1, c)

\* variant: the loop with the test `len(candidates) > top_k`
RECURSIVE candidates_break_late(_, _, _, _, _, _)
candidates_break_late(emb, k, i, idxs, pos, candidates) ==
    IF pos > Len(idxs) THEN candidates
    ELSE IF idxs[pos] = i
         THEN candidates_break_late(emb, k, i, idxs, pos + 1, candidates)
         ELSE LET c == Append(candidates, urls(emb)[idxs[pos]])
              IN  IF Len(c) > k THEN c
                  ELSE candidates_break_late(emb, k, i, idxs, pos + 1, c)

\* the loop `for j in idxs` of one page i, from position pos on
RECURSIVE candidates_loop(_, _, _, _, _, _)
candidates_loop(emb, k, i, idxs, pos, candidates) ==
    IF pos > Len(idxs) THEN candidates
    ELSE IF idxs[pos] = i
         THEN candidates_loop(emb, k, i, idxs, pos + 1, candidates)
         ELSE LET c == Append(candidates, urls(emb)[idxs[pos]])
              IN  IF Len(c) >= k THEN c
                  ELSE candidates_loop(emb, k, i, idxs, pos + 1, c)

\* the lists page i can get, one per order argsort may return
candidate_lists(emb, k, i) ==
    {candidates_loop(emb, k, i, idxs, 1, <<>>) : idxs \in argsort(emb, i)}

\* the loop `for i, u in enumerate(urls)`: the maps it can have built after
\* the first n pages
RECURSIVE related_upto(_, _, _)
related_upto(emb, k, n) ==
    IF n = 0 THEN {<<>>}
    ELSE LET lists == candidate_lists(emb, k, n)
             before == related_upto(emb, k, n - 1)
         IN  {Append(m, [url |-> urls(emb)[n], related |-> c]) : m \in before, c \in lists}

\* the maps compute_related_pages can return
compute_related_pages(emb, k) == related_upto(emb, k, Len(emb))

\* the dict orders tried for n pages named 1..n: ascending and descending
UrlOrders(n) == {[i \in 1..n |-> i], [i \in 1..n |-> n + 1 - i]}

\* the embedding sets tried
EmbeddingSets ==
    UNION {{[i \in 1..n |-> [url |-> p[i], vec |-> v[i]]] :
              p \in UrlOrders(n), v \in [1..n -> Vecs]} : n \in 0..MaxPages}

InitSim ==
    /\ embeddings_map \in EmbeddingSets
    /\ top_k \in 0..MaxTopK
    /\ related_pages_map = <<>>
    /\ gsc_data = <<>>
    /\ top_n = 0
    /\ gsc_metrics_df = <<>>
    /\ url_keywords_map = <<>>
    /\ search_volume_map = <<>>
    /\ links_df = <<>>
    /\ top_related = 0
    /\ analysis_df = <<>>
    /\ scored_df = <<>>
    /\ none_frames = {}
    /\ op = "none"
    /\ calls = <<>>

ComputeRelatedPages ==
    /\ op = "none"
    /\ related_pages_map' \in compute_related_pages(embeddings_map, top_k)
    /\ op' = "compute_related_pages"
    /\ calls' = Append(calls, "compute_related_pages")
    /\ UNCHANGED <<embeddings_map, top_k, gsc_data, top_n, gsc_metrics_df,
                   url_keywords_map, search_volume_map, links_df, top_related,
                   analysis_df, scored_df, none_frames>>

NextSim == ComputeRelatedPages

SpecSim == InitSim /\ [][NextSim]_vars

\* the embedding sets with top_k = 1: each page gets its nearest neighbour
InitNearest == InitSim /\ top_k = 1

SpecNearest == InitNearest /\ [][NextSim]_vars

(***************************************************************************)
(* GSCDataProcessor (src/core/gsc_processor.py).                           *)
(*                                                                         *)
(* A log row is [page, query, clicks, impressions].  The empty string is a *)
(* query too: _cached_gsc_query stores "" when the API row has no query    *)
(* key.                                                                    *)
(***************************************************************************)
GscPages == {1, 2}

GscQueries == {"", "x", "y"}

\* the (clicks, impressions) pairs tried
GscCounts == {<<0, 0>>, <<0, 1>>, <<1, 1>>, <<2, 2>>}

GscRows ==
    {[page |-> p, query |-> q, clicks |-> c[1], impressions |-> c[2]] :
        p \in GscPages, q \in GscQueries, c \in GscCounts}

GscLogs == UNION {[1..n -> GscRows] : n \in 0..MaxRecords}

\* the keys of a groupby, which pandas sorts: the elements of S in ascending order
RECURSIVE SortedKeys(_)
SortedKeys(S) ==
    IF S = {} THEN <<>>
    ELSE LET m == CHOOSE x \in S : \A y \in S : x <= y
         IN  <<m>> \o SortedKeys(S \ {m})

\* the index of the rows of one group
GroupRows(gsc, page) == {r \in 1..Len(gsc) : gsc[r].page = page}

\* agg "sum" of one column over one group, rows 1..n of the log
RECURSIVE GroupSum(_, _, _, _)
GroupSum(gsc, page, col, n) ==
    IF n = 0 THEN 0
    ELSE GroupSum(gsc, page, col, n - 1)
         + (IF gsc[n].page = page THEN gsc[n][col] ELSE 0)

\* variant: agg "count", the number of rows of the group
GroupCount(gsc, page) == Cardinality(GroupRows(gsc, page))

\* agg "nunique": the number of distinct queries of the group
GroupNunique(gsc, page) == Cardinality({gsc[r].query : r \in GroupRows(gsc, page)})

\* variant: the sums are added to the metrics of the previous call
calculate_url_metrics_incremental(gsc) ==
    IF Len(gsc) = 0 THEN <<>>
    ELSE LET pages == SortedKeys({gsc[r].page : r \in 1..Len(gsc)})
             before(i, col) == IF i <= Len(gsc_metrics_df)
                               THEN gsc_metrics_df[i][col] ELSE 0
         IN  [i \in 1..Len(pages) |->
                [page |-> pages[i],
                 url_queries_count |-> GroupNunique(gsc, pages[i]),
                 url_clicks |-> before(i, "url_clicks")
                                + GroupSum(gsc, pages[i], "clicks", Len(gsc)),
                 url_impressions |-> before(i, "url_impressions")
                                + GroupSum(gsc, pages[i], "impressions", Len(gsc))]]

calculate_url_metrics(gsc) ==
    IF Len(gsc) = 0 THEN <<>>
    ELSE LET pages == SortedKeys({gsc[r].page : r \in 1..Len(gsc)})
         IN  [i \in 1..Len(pages) |->
                [page |-> pages[i],
                 url_queries_count |-> GroupNunique(gsc, pages[i]),
                 url_clicks |-> GroupSum(gsc, pages[i], "clicks", Len(gsc)),
                 url_impressions |-> GroupSum(gsc, pages[i], "impressions", Len(gsc))]]

\* variant: rank("min", ascending=False): 1 + the number of rows of the group with a larger value
MinRank(gsc, r, col) ==
    1 + Cardinality({j \in GroupRows(gsc, gsc[r].page) : gsc[j][col] > gsc[r][col]})

\* groupby("page")[col].rank("dense", ascending=False) of row r:
\* 1 + the number of distinct larger values in the row's group
DenseRank(gsc, r, col) ==
    1 + Cardinality({gsc[j][col] : j \in {k \in GroupRows(gsc, gsc[r].page) :
                                            gsc[k][col] > gsc[r][col]}})

\* variant: gsc_data[gsc_data["rank"] < top_n]
TopRowsStrict(gsc, n, col) == {r \in 1..Len(gsc) : DenseRank(gsc, r, col) < n}

\* gsc_data[gsc_data["rank"] <= top_n], as the index of the rows kept
TopRows(gsc, n, col) == {r \in 1..Len(gsc) : DenseRank(gsc, r, col) <= n}

\* variant: the kept rows of one page taken in reverse log order
RECURSIVE QueryListReversed(_, _, _, _)
QueryListReversed(gsc, kept, page, n) ==
    IF n = 0 THEN <<>>
    ELSE (IF n \in kept /\ gsc[n].page = page /\ gsc[n].query # ""
          THEN <<gsc[n].query>> ELSE <<>>)
         \o QueryListReversed(gsc, kept, page, n - 1)

\* [q for q in sub["query"] if q] over the kept rows of one page, in log order
RECURSIVE QueryList(_, _, _, _)
QueryList(gsc, kept, page, n) ==
    IF n = 0 THEN <<>>
    ELSE QueryList(gsc, kept, page, n - 1)
         \o (IF n \in kept /\ gsc[n].page = page /\ gsc[n].query # ""
             THEN <<gsc[n].query>> ELSE <<>>)

\* variant: `out` starts with an empty list for every page of the roster
extract_top_keywords_roster(gsc, n) ==
    LET by_clicks == TopRows(gsc, n, "clicks")
        pages == SortedKeys(GscPages)
    IN  [i \in 1..Len(pages) |->
           [page |-> pages[i],
            kws |-> QueryList(gsc, by_clicks, pages[i], Len(gsc))]]

extract_top_keywords_by_url(gsc, n) ==
    IF Len(gsc) = 0 THEN <<>>
    ELSE LET by_clicks == TopRows(gsc, n, "clicks")
             top_clicks == IF by_clicks = {} THEN TopRows(gsc, n, "impressions")
                           ELSE by_clicks
             pages == SortedKeys({gsc[r].page : r \in top_clicks})
         IN  [i \in 1..Len(pages) |->
                [page |-> pages[i],
                 kws |-> QueryList(gsc, top_clicks, pages[i], Len(gsc))]]

\* variant: no `gsc_data = gsc_data.copy()`, the rank column is written to
\* the caller's log
log_after_extract_in_place(gsc) ==
    [r \in 1..Len(gsc) |-> [rank |-> DenseRank(gsc, r, "clicks")] @@ gsc[r]]

\* the caller's log after extract_top_keywords_by_url: the rank column is
\* written to the copy made by `gsc_data = gsc_data.copy()`
log_after_extract(gsc) == gsc

CalculateUrlMetrics ==
    /\ gsc_metrics_df' = calculate_url_metrics(gsc_data)
    /\ none_frames' = none_frames \ {"gsc_metrics_df"}
    /\ op' = "calculate_url_metrics"
    /\ calls' = Append(calls, "calculate_url_metrics")
    /\ UNCHANGED <<embeddings_map, top_k, related_pages_map, gsc_data, top_n,
                   url_keywords_map, search_volume_map, links_df, top_related,
                   analysis_df, scored_df>>

ExtractTopKeywords ==
    /\ url_keywords_map' = extract_top_keywords_by_url(gsc_data, top_n)
    /\ op' = "extract_top_keywords_by_url"
    /\ calls' = Append(calls, "extract_top_keywords_by_url")
    /\ gsc_data' = log_after_extract(gsc_data)
    /\ UNCHANGED <<embeddings_map, top_k, related_pages_map, top_n,
                   gsc_metrics_df, search_volume_map, links_df, top_related,
                   analysis_df, scored_df, none_frames>>

\* a log and a top_n, nothing computed yet
InitGsc ==
    /\ embeddings_map = <<>>
    /\ top_k = 0
    /\ related_pages_map = <<>>
    /\ gsc_data \in GscLogs
    /\ top_n \in 0..MaxTopN
    /\ gsc_metrics_df = <<>>
    /\ url_keywords_map = <<>>
    /\ search_volume_map = <<>>
    /\ links_df = <<>>
    /\ top_related = 0
    /\ analysis_df = <<>>
    /\ scored_df = <<>>
    /\ none_frames = {}
    /\ op = "none"
    /\ calls = <<>>

NextKeywords == op = "none" /\ ExtractTopKeywords

SpecKeywords == InitGsc /\ [][NextKeywords]_vars

InitMetrics == InitGsc /\ top_n = 0

NextMetrics == op = "none" /\ CalculateUrlMetrics

SpecMetrics == InitMetrics /\ [][NextMetrics]_vars

\* the scenario of one page with clicks 5, 5, 3, 3, 1, its five records in any order
TieRows ==
    <<[page |-> 1, query |-> "a", clicks |-> 5, impressions |-> 50],
      [page |-> 1, query |-> "b", clicks |-> 5, impressions |-> 40],
      [page |-> 1, query |-> "c", clicks |-> 3, impressions |-> 30],
      [page |-> 1, query |-> "d", clicks |-> 3, impressions |-> 20],
      [page |-> 1, query |-> "e", clicks |-> 1, impressions |-> 10]>>

InitTies ==
    /\ embeddings_map = <<>>
    /\ top_k = 0
    /\ related_pages_map = <<>>
    /\ gsc_data \in {[i \in 1..Len(TieRows) |-> TieRows[p[i]]] : p \in Perms(Len(TieRows))}
    /\ top_n = 2
    /\ gsc_metrics_df = <<>>
    /\ url_keywords_map = <<>>
    /\ search_volume_map = <<>>
    /\ links_df = <<>>
    /\ top_related = 0
    /\ analysis_df = <<>>
    /\ scored_df = <<>>
    /\ none_frames = {}
    /\ op = "none"
    /\ calls = <<>>

SpecTies == InitTies /\ [][NextKeywords]_vars

(***************************************************************************)
(* EnhancedLinkAnalyzer (src/analyzers/link_analyzer.py).                  *)
(*                                                                         *)
(* A row of the composed table is                                          *)
(*   [target_url, queries, clicks, impressions, msv, slots]                *)
(* where slots[i] = [url, status] stands for the columns "Related URL i"   *)
(* and "URL i Status".  Keywords are strings; Lower is str.lower on them.  *)
(***************************************************************************)
\* the URL that stands for the empty string
EmptyUrl == 0

\* a URL above PadOffset stands for the URL (u - PadOffset) with surrounding blanks
PadOffset == 10

\* str(page).strip()
Strip(u) == IF u > PadOffset THEN u - PadOffset ELSE u

Keywords == {"seo", "SEO", "links"}

\* kw.lower()
Lower(kw) == IF kw = "SEO" THEN "seo" ELSE kw

SearchVolumes == {0, 1, 2}

ZeroMetrics == [queries |-> 0, clicks |-> 0, impressions |-> 0]

\* variant: the key of `metrics` is r["page"], not stripped
RECURSIVE metrics_get_unstripped(_, _, _)
metrics_get_unstripped(df, n, target_url) ==
    IF n = 0 THEN ZeroMetrics
    ELSE IF df[n].page = target_url
         THEN [queries |-> df[n].url_queries_count,
               clicks |-> df[n].url_clicks,
               impressions |-> df[n].url_impressions]
         ELSE metrics_get_unstripped(df, n - 1, target_url)

\* the dict `metrics` built from the metrics table (iterrows: a later row
\* of the same stripped page overwrites an earlier one), then
\* metrics.get(target_url, zeros)
RECURSIVE metrics_get(_, _, _)
metrics_get(df, n, target_url) ==
    IF n = 0 THEN ZeroMetrics
    ELSE IF Strip(df[n].page) = target_url
         THEN [queries |-> df[n].url_queries_count,
               clicks |-> df[n].url_clicks,
               impressions |-> df[n].url_impressions]
         ELSE metrics_get(df, n - 1, target_url)

\* url_keywords_map.get(target_url, []) if url_keywords_map else []
keywords_get(ukm, target_url) ==
    IF \E i \in 1..Len(ukm) : ukm[i].page = target_url
    THEN ukm[CHOOSE i \in 1..Len(ukm) : ukm[i].page = target_url].kws
    ELSE <<>>

\* search_volume_map.get(kw.lower(), search_volume_map.get(kw, 0))
volume_get(svm, kw) ==
    IF Lower(kw) \in DOMAIN svm THEN svm[Lower(kw)]
    ELSE IF kw \in DOMAIN svm THEN svm[kw]
    ELSE 0

\* variant: sum(vols)
RECURSIVE sum(_)
sum(vols) == IF Len(vols) = 0 THEN 0 ELSE vols[1] + sum(Tail(vols))

\* max(vols) of a non-empty list
RECURSIVE max(_)
max(vols) ==
    IF Len(vols) = 1 THEN vols[1]
    ELSE LET m == max(Tail(vols)) IN IF vols[1] >= m THEN vols[1] ELSE m

monthly_search_volume(svm, ukm, target_url) ==
    LET kws == keywords_get(ukm, target_url)
        vols == [i \in 1..Len(kws) |-> volume_get(svm, kws[i])]
    IN  IF Len(vols) > 0 THEN max(vols) ELSE 0

\* variant: a link in either direction counts
_link_status_undirected(links, source, destination) ==
    IF source = EmptyUrl \/ destination = EmptyUrl THEN ""
    ELSE IF \E e \in 1..Len(links) :
               \/ links[e].Source = source /\ links[e].Destination = destination
               \/ links[e].Source = destination /\ links[e].Destination = source
         THEN "Exists"
         ELSE "Missing"

_link_status(links, source, destination) ==
    IF source = EmptyUrl \/ destination = EmptyUrl THEN ""
    ELSE IF \E e \in 1..Len(links) :
               links[e].Source = source /\ links[e].Destination = destination
         THEN "Exists"
         ELSE "Missing"

\* variant: `for i in range(min(top_related, len(related_urls)))`
related_slots_short(links, target_url, related_urls, n_related) ==
    [i \in 1..Min(n_related, Len(related_urls)) |->
        [url |-> related_urls[i],
         status |-> _link_status(links, target_url, related_urls[i])]]

\* the loop `for i in range(top_related)` of one row: slot i + 1 of the code
\* is slot i here
related_slots(links, target_url, related_urls, n_related) ==
    [i \in 1..n_related |->
        LET val_u == IF i <= Len(related_urls) THEN related_urls[i] ELSE EmptyUrl
        IN  [url |-> val_u, status |-> _link_status(links, target_url, val_u)]]

\* the dict `base` of one item of related_pages_map
analysis_row(links, target_url, related_urls, metrics_df, svm, ukm, n_related) ==
    LET m == metrics_get(metrics_df, Len(metrics_df), target_url)
    IN  [target_url |-> target_url,
         queries |-> m.queries,
         clicks |-> m.clicks,
         impressions |-> m.impressions,
         msv |-> monthly_search_volume(svm, ukm, target_url),
         slots |-> related_slots(links, target_url, related_urls, n_related)]

\* variant: `for target_url in sorted(related_pages_map)`
analyze_sorted(links, rel, metrics_df, svm, ukm, n_related) ==
    LET keys == SortedKeys({rel[r].url : r \in 1..Len(rel)})
        entry(u) == rel[CHOOSE r \in 1..Len(rel) : rel[r].url = u]
    IN  [r \in 1..Len(keys) |->
            analysis_row(links, keys[r], entry(keys[r]).related, metrics_df, svm,
                         ukm, n_related)]

analyze_with_performance_data(links, rel, metrics_df, svm, ukm, n_related) ==
    [r \in 1..Len(rel) |->
        analysis_row(links, rel[r].url, rel[r].related, metrics_df, svm, ukm,
                     n_related)]

AnalyzeWithPerformanceData ==
    /\ analysis_df' = analyze_with_performance_data(links_df, related_pages_map,
                          gsc_metrics_df, search_volume_map, url_keywords_map,
                          top_related)
    /\ none_frames' = none_frames \ {"analysis_df"}
    /\ op' = "analyze_with_performance_data"
    /\ calls' = Append(calls, "analyze_with_performance_data")
    /\ UNCHANGED <<embeddings_map, top_k, related_pages_map, gsc_data, top_n,
                   gsc_metrics_df, url_keywords_map, search_volume_map, links_df,
                   top_related, scored_df>>

\* the volume maps tried: every key of Keywords absent or bound to a volume
VolumeMaps == UNION {[K -> SearchVolumes] : K \in SUBSET Keywords}

KeywordLists == UNION {[1..n -> Keywords] : n \in 0..MaxKeywords}

\* the keyword maps tried: pages 1 and 2, each absent or with a keyword list
KeywordMaps ==
    {<<>>}
    \cup {<<[page |-> p, kws |-> k]>> : p \in {1, 2}, k \in KeywordLists}
    \cup {<<[page |-> 1, kws |-> k1], [page |-> 2, kws |-> k2]>> :
             k1 \in KeywordLists, k2 \in KeywordLists}

\* the related-pages maps tried by the volume specification
VolumeRelatedMaps ==
    {<<[url |-> 1, related |-> <<2>>]>>,
     <<[url |-> 2, related |-> <<1>>], [url |-> 1, related |-> <<2>>]>>}

InitVolume ==
    /\ embeddings_map = <<>>
    /\ top_k = 0
    /\ related_pages_map \in VolumeRelatedMaps
    /\ gsc_data = <<>>
    /\ top_n = 0
    /\ gsc_metrics_df = <<[page |-> 1, url_queries_count |-> 2, url_clicks |-> 3,
                           url_impressions |-> 4]>>
    /\ url_keywords_map \in KeywordMaps
    /\ search_volume_map \in VolumeMaps
    /\ links_df = <<[Source |-> 1, Destination |-> 2]>>
    /\ top_related = 1
    /\ analysis_df = <<>>
    /\ scored_df = <<>>
    /\ none_frames = {}
    /\ op = "none"
    /\ calls = <<>>

NextVolume == op = "none" /\ AnalyzeWithPerformanceData

SpecVolume == InitVolume /\ [][NextVolume]_vars

(***************************************************************************)
(* The inputs tried for the composition of the table.                      *)
(***************************************************************************)
ComposeUrls == {1, 2, 3}

\* the neighbour lists a page u can have: other pages, none twice
NeighbourLists(u) ==
    LET others == ComposeUrls \ {u}
    IN  {l \in UNION {[1..n -> others] : n \in 0..Cardinality(others)} : Injective(l)}

\* related-pages maps of up to MaxComposeKeys pages in any key order, and
\* one whose key is the empty string
ComposeRelatedMaps ==
    {<<[url |-> EmptyUrl, related |-> <<1, 2>>]>>}
    \cup UNION {{m \in [1..n -> [url : ComposeUrls,
                                 related : UNION {NeighbourLists(u) : u \in ComposeUrls}]] :
                    /\ \A i, j \in 1..n : m[i].url = m[j].url => i = j
                    /\ \A i \in 1..n : m[i].related \in NeighbourLists(m[i].url)} :
                n \in 0..MaxComposeKeys}

\* the row of page p in a metrics table
MetricsRow(p) ==
    [page |-> p, url_queries_count |-> Strip(p), url_clicks |-> p + 1,
     url_impressions |-> p + 2]

\* the metrics tables tried: one row per page; page 1 + PadOffset is page 1
\* with surrounding blanks
ComposeMetrics ==
    {<<>>, <<MetricsRow(1)>>, <<MetricsRow(3)>>, <<MetricsRow(1 + PadOffset)>>,
     <<MetricsRow(2), MetricsRow(3)>>}

LinkEdges ==
    {[Source |-> 1, Destination |-> 2], [Source |-> 2, Destination |-> 1],
     [Source |-> 1, Destination |-> 3], [Source |-> 1, Destination |-> EmptyUrl]}

ComposeLinks == UNION {[1..n -> LinkEdges] : n \in 0..MaxLinks}

\* the <<keyword map, volume map>> pairs tried
ComposeDemand ==
    {<<(<<>>), (<<>>)>>,
     <<(<<[page |-> 1, kws |-> <<"SEO">>], [page |-> 2, kws |-> <<"links", "seo">>]>>),
       ("seo" :> 2 @@ "links" :> 1)>>,
     <<(<<[page |-> 1, kws |-> <<"links">>]>>), ("seo" :> 2)>>}

InitCompose ==
    /\ embeddings_map = <<>>
    /\ top_k = 0
    /\ related_pages_map \in ComposeRelatedMaps
    /\ gsc_data = <<>>
    /\ top_n = 0
    /\ gsc_metrics_df \in ComposeMetrics
    /\ \E d \in ComposeDemand : url_keywords_map = d[1] /\ search_volume_map = d[2]
    /\ links_df \in ComposeLinks
    /\ top_related \in 0..MaxTopRelated
    /\ analysis_df = <<>>
    /\ scored_df = <<>>
    /\ none_frames \in (IF gsc_metrics_df = <<>> THEN {{}, {"gsc_metrics_df"}} ELSE {{}})
    /\ op = "none"
    /\ calls = <<>>

SpecCompose == InitCompose /\ [][NextVolume]_vars

(***************************************************************************)
(* PerformanceAnalyzer.score_opportunities.  A float is an exact rational   *)
(* [num, den] in lowest terms with den > 0; NaN is the pair with den = 0.   *)
(* A scored row is the input row with the two columns OppScore and          *)
(* priority ("Implementation Priority") added.                              *)
(***************************************************************************)
RECURSIVE GCD(_, _)
GCD(a, b) == IF b = 0 THEN a ELSE GCD(b, a % b)

NaN == [num |-> 0, den |-> 0]

IsNaN(x) == x.den = 0

Rat(n, d) ==
    IF d = 0 THEN NaN
    ELSE LET g == GCD(Abs(n), Abs(d))
             sgn == IF d < 0 THEN -1 ELSE 1
         IN  [num |-> sgn * (n \div g), den |-> sgn * (d \div g)]

RatAdd(x, y) ==
    IF IsNaN(x) \/ IsNaN(y) THEN NaN
    ELSE Rat(x.num * y.den + y.num * x.den, x.den * y.den)

RatSub(x, y) ==
    IF IsNaN(x) \/ IsNaN(y) THEN NaN
    ELSE Rat(x.num * y.den - y.num * x.den, x.den * y.den)

RatMul(x, y) ==
    IF IsNaN(x) \/ IsNaN(y) THEN NaN
    ELSE Rat(x.num * y.num, x.den * y.den)

\* x / y; the quotient by zero is NaN (an infinity is not represented)
RatDiv(x, y) ==
    IF IsNaN(x) \/ IsNaN(y) THEN NaN
    ELSE Rat(x.num * y.den, x.den * y.num)

\* comparisons with NaN are false
RatLess(x, y) == ~IsNaN(x) /\ ~IsNaN(y) /\ x.num * y.den < y.num * x.den

RatLeq(x, y) == ~IsNaN(x) /\ ~IsNaN(y) /\ x.num * y.den <= y.num * x.den

\* x["Impressions"].astype(float).fillna(0)
imp(df) == [r \in 1..Len(df) |-> Rat(df[r].impressions, 1)]

\* x["Clicks"].astype(float).fillna(0)
clk(df) == [r \in 1..Len(df) |-> Rat(df[r].clicks, 1)]

\* variant: clk / imp with no replace(0, nan) and no fillna(0.0)
ctr_unguarded(df) ==
    [r \in 1..Len(df) |-> RatDiv(clk(df)[r], imp(df)[r])]

\* (clk / imp.replace(0, np.nan)).fillna(0.0)
ctr(df) ==
    [r \in 1..Len(df) |->
        IF imp(df)[r] = Rat(0, 1) THEN Rat(0, 1)
        ELSE RatDiv(clk(df)[r], imp(df)[r])]

\* variant: imp - clk with no clip
opp_unclipped(df) ==
    [r \in 1..Len(df) |-> RatSub(imp(df)[r], clk(df)[r])]

\* (imp - clk).clip(lower=0)
opp(df) ==
    [r \in 1..Len(df) |->
        LET diff == RatSub(imp(df)[r], clk(df)[r])
        IN  IF RatLess(diff, Rat(0, 1)) THEN Rat(0, 1) ELSE diff]

\* Series.max() of a non-empty series: NaN entries are skipped, and the
\* result is NaN when nothing is left
series_max(s) ==
    LET finite == {r \in 1..Len(s) : ~IsNaN(s[r])}
    IN  IF finite = {} THEN NaN
        ELSE s[CHOOSE r \in finite : \A q \in finite : RatLeq(s[q], s[r])]

\* Series.min(): the smallest entry, NaN entries skipped
series_min(s) ==
    LET finite == {r \in 1..Len(s) : ~IsNaN(s[r])}
    IN  IF finite = {} THEN NaN
        ELSE s[CHOOSE r \in finite : \A q \in finite : RatLeq(s[r], s[q])]

\* variant: (s - s.min()) / (s.max() - s.min()) when the maximum is positive
norm_minmax(s) ==
    LET m == series_max(s)
        lo == series_min(s)
    IN  IF RatLess(Rat(0, 1), m)
        THEN [r \in 1..Len(s) |-> RatDiv(RatSub(s[r], lo), RatSub(m, lo))]
        ELSE s

\* variant: s / m with no test of m
norm_unguarded(s) ==
    LET m == series_max(s)
    IN  [r \in 1..Len(s) |-> RatDiv(s[r], m)]

\* the local function norm: (s / m) if m > 0 else s
norm(s) ==
    LET m == series_max(s)
    IN  IF RatLess(Rat(0, 1), m)
        THEN [r \in 1..Len(s) |-> RatDiv(s[r], m)]
        ELSE s

\* variant: 0.6 * a + 0.4 * b
opp_score_raw_ctr(a, b) ==
    RatAdd(RatMul(Rat(6, 10), a), RatMul(Rat(4, 10), b))

\* 0.6 * norm(opp) + 0.4 * (1 - norm(ctr)) for one row
opp_score(a, b) ==
    RatAdd(RatMul(Rat(6, 10), a), RatMul(Rat(4, 10), RatSub(Rat(1, 1), b)))

\* variant: bins=[0, 0.33, 0.66, 1.0], the first bin open at 0
cut_from_zero(v) ==
    IF RatLess(Rat(0, 1), v) /\ RatLeq(v, Rat(33, 100)) THEN "Low"
    ELSE IF RatLess(Rat(33, 100), v) /\ RatLeq(v, Rat(66, 100)) THEN "Medium"
    ELSE IF RatLess(Rat(66, 100), v) /\ RatLeq(v, Rat(1, 1)) THEN "High"
    ELSE "NaN"

\* variant: pd.cut(..., right=False), bins closed on the left
cut_left_closed(v) ==
    IF RatLeq(Rat(-1, 100), v) /\ RatLess(v, Rat(33, 100)) THEN "Low"
    ELSE IF RatLeq(Rat(33, 100), v) /\ RatLess(v, Rat(66, 100)) THEN "Medium"
    ELSE IF RatLeq(Rat(66, 100), v) /\ RatLess(v, Rat(1, 1)) THEN "High"
    ELSE "NaN"

\* pd.cut(v, bins=[-0.01, 0.33, 0.66, 1.0], labels=["Low", "Medium", "High"]):
\* bins are open on the left and closed on the right, a value in no bin
\* (NaN included) gets no label
cut(v) ==
    IF RatLess(Rat(-1, 100), v) /\ RatLeq(v, Rat(33, 100)) THEN "Low"
    ELSE IF RatLess(Rat(33, 100), v) /\ RatLeq(v, Rat(66, 100)) THEN "Medium"
    ELSE IF RatLess(Rat(66, 100), v) /\ RatLeq(v, Rat(1, 1)) THEN "High"
    ELSE "NaN"

\* variant: the scored rows are returned last row first
score_opportunities_reversed(df) ==
    IF Len(df) = 0 THEN df
    ELSE LET a == norm(opp(df))
             b == norm(ctr(df))
             n == Len(df)
         IN  [r \in 1..n |->
                 LET s == opp_score(a[n + 1 - r], b[n + 1 - r])
                 IN  [OppScore |-> s, priority |-> cut(s)] @@ df[n + 1 - r]]

score_opportunities(df) ==
    IF Len(df) = 0 THEN df
    ELSE LET a == norm(opp(df))
             b == norm(ctr(df))
         IN  [r \in 1..Len(df) |->
                 LET s == opp_score(a[r], b[r])
                 IN  [OppScore |-> s, priority |-> cut(s)] @@ df[r]]

\* variant: `x = df`, the two columns are written to the caller's table
table_after_score_in_place(df) == score_opportunities(df)

\* the caller's table after score_opportunities: the columns are written
\* to the copy made by `x = df.copy()`
table_after_score(df) == df

\* variant: a missing table is answered with a fresh empty table
score_returns_missing_fresh(missing) == FALSE

\* `return df` on `df is None or df.empty`: a missing table comes back
\* missing, any other result is a table
score_returns_missing(missing) == missing

ScoreOpportunities ==
    /\ scored_df' = score_opportunities(analysis_df)
    /\ none_frames' =
          IF score_returns_missing("analysis_df" \in none_frames)
          THEN none_frames \cup {"scored_df"}
          ELSE none_frames \ {"scored_df"}
    /\ op' = "score_opportunities"
    /\ calls' = Append(calls, "score_opportunities")
    /\ analysis_df' = table_after_score(analysis_df)
    /\ UNCHANGED <<embeddings_map, top_k, related_pages_map, gsc_data, top_n,
                   gsc_metrics_df, url_keywords_map, search_volume_map, links_df,
                   top_related>>

\* (clicks, impressions) of the rows scored
ScoreCounts == {<<0, 0>>, <<0, 26>>, <<3, 36>>, <<0, 60>>, <<2, 1>>, <<1, 0>>}

\* row r of a table made by analyze_with_performance_data with
\* top_related = 0
ScoreRow(r, c) ==
    [target_url |-> r,
     queries |-> IF c[1] + c[2] > 0 THEN 1 ELSE 0,
     clicks |-> c[1],
     impressions |-> c[2],
     msv |-> 0,
     slots |-> <<>>]

ScoreTables ==
    UNION {{[r \in 1..n |-> ScoreRow(r, f[r])] : f \in [1..n -> ScoreCounts]} :
           n \in 0..MaxRows}

\* a table, or no table, and nothing scored yet
InitScore ==
    /\ embeddings_map = <<>>
    /\ top_k = 0
    /\ related_pages_map = <<>>
    /\ gsc_data = <<>>
    /\ top_n = 0
    /\ gsc_metrics_df = <<>>
    /\ url_keywords_map = <<>>
    /\ search_volume_map = <<>>
    /\ links_df = <<>>
    /\ top_related = 0
    /\ analysis_df \in ScoreTables
    /\ scored_df = <<>>
    /\ none_frames \in (IF analysis_df = <<>> THEN {{}, {"analysis_df"}} ELSE {{}})
    /\ op = "none"
    /\ calls = <<>>

NextScore == op = "none" /\ ScoreOpportunities

SpecScore == InitScore /\ [][NextScore]_vars

(***************************************************************************)
(* The five core operations on empty, missing and non-empty inputs.         *)
(***************************************************************************)
CoreEmbeddings ==
    {<<>>,
     <<[url |-> 1, vec |-> <<3, 4>>]>>,
     <<[url |-> 1, vec |-> <<3, 4>>], [url |-> 2, vec |-> <<4, 3>>]>>}

CoreLogs ==
    {<<>>, <<[page |-> 1, query |-> "x", clicks |-> 1, impressions |-> 1]>>}

CoreRelatedMaps == {<<>>, <<[url |-> 1, related |-> <<2>>]>>}

CoreTables == {<<>>, <<ScoreRow(1, <<0, 60>>)>>}

\* the frames that may be None instead of empty: the log and the table
\* given to the scorer
CoreMissing(log, table) ==
    SUBSET ((IF log = <<>> THEN {"gsc_data"} ELSE {})
            \cup (IF table = <<>> THEN {"analysis_df"} ELSE {}))

InitCore ==
    /\ embeddings_map \in CoreEmbeddings
    /\ top_k \in 0..1
    /\ related_pages_map \in CoreRelatedMaps
    /\ gsc_data \in CoreLogs
    /\ top_n = 1
    /\ gsc_metrics_df = <<>>
    /\ url_keywords_map = <<>>
    /\ search_volume_map = <<>>
    /\ links_df = <<>>
    /\ top_related \in 0..1
    /\ analysis_df \in CoreTables
    /\ scored_df = <<>>
    /\ none_frames \in CoreMissing(gsc_data, analysis_df)
    /\ op = "none"
    /\ calls = <<>>

NextCore ==
    /\ op = "none"
    /\ \/ ComputeRelatedPages
       \/ CalculateUrlMetrics
       \/ ExtractTopKeywords
       \/ AnalyzeWithPerformanceData
       \/ ScoreOpportunities

SpecCore == InitCore /\ [][NextCore]_vars

(***************************************************************************)
(* Repeated calls of the two GSCDataProcessor operations on one log.        *)
(***************************************************************************)
RepeatLogs == UNION {[1..n -> GscRows] : n \in 0..MaxRepeatRecords}

InitRepeat ==
    /\ embeddings_map = <<>>
    /\ top_k = 0
    /\ related_pages_map = <<>>
    /\ gsc_data \in RepeatLogs
    /\ top_n = 1
    /\ gsc_metrics_df = <<>>
    /\ url_keywords_map = <<>>
    /\ search_volume_map = <<>>
    /\ links_df = <<>>
    /\ top_related = 0
    /\ analysis_df = <<>>
    /\ scored_df = <<>>
    /\ none_frames = {}
    /\ op = "none"
    /\ calls = <<>>

NextRepeat ==
    /\ Len(calls) < MaxCalls
    /\ \/ CalculateUrlMetrics
       \/ ExtractTopKeywords

SpecRepeat == InitRepeat /\ [][NextRepeat]_vars

(***************************************************************************)
(* The composed table scored: analyze_with_performance_data, then           *)
(* score_opportunities on its result.                                       *)
(***************************************************************************)
NextPipeline ==
    \/ op = "none" /\ AnalyzeWithPerformanceData
    \/ op = "analyze_with_performance_data" /\ ScoreOpportunities

\* the analyzer's inputs with one neighbour slot per row and the link 1 -> 2
InitPipeline ==
    /\ InitCompose
    /\ top_related = 1
    /\ none_frames = {}
    /\ links_df = <<[Source |-> 1, Destination |-> 2]>>

SpecPipeline == InitPipeline /\ [][NextPipeline]_vars

(***************************************************************************)
(* The application session (app.py): st.session_state and the handlers of  *)
(* the buttons Process Files, Find Related Pages, Extract Keywords and Run  *)
(* Full Analysis, in a configuration without AI client and without          *)
(* DataForSEO client.  The session keeps the scored table in analysis_df.   *)
(***************************************************************************)
\* the slider "Top related URLs per page": min_value and value
SliderMin == 5

SliderDefault == 10

SliderValues == {SliderMin, SliderDefault}

\* top_n of the Extract Keywords handler
SessionTopN == 3

SessionEmbeddings ==
    {<<[url |-> 1, vec |-> <<3, 4>>], [url |-> 2, vec |-> <<4, 3>>]>>,
     <<[url |-> 2, vec |-> <<3, 4>>], [url |-> 3, vec |-> <<6, 8>>]>>}

SessionLinks == {<<[Source |-> 1, Destination |-> 2]>>}

SessionLogs ==
    {<<>>,
     <<[page |-> 1, query |-> "x", clicks |-> 1, impressions |-> 2],
       [page |-> 2, query |-> "y", clicks |-> 0, impressions |-> 1]>>}

\* the files of one upload: links and embeddings are required, the GSC log
\* is optional; an upload without one of the required files is incomplete
Uploads ==
    {[complete |-> TRUE, links |-> l, embeddings |-> e, has_gsc |-> TRUE, gsc |-> g] :
        l \in SessionLinks, e \in SessionEmbeddings, g \in SessionLogs}
    \cup
    {[complete |-> TRUE, links |-> l, embeddings |-> e, has_gsc |-> FALSE, gsc |-> <<>>] :
        l \in SessionLinks, e \in SessionEmbeddings}
    \cup
    {[complete |-> FALSE, links |-> <<>>, embeddings |-> <<>>, has_gsc |-> FALSE,
      gsc |-> <<>>]}

\* init_session: the defaults of st.session_state
InitSession ==
    /\ embeddings_map = <<>>
    /\ top_k = SliderDefault
    /\ related_pages_map = <<>>
    /\ gsc_data = <<>>
    /\ top_n = SessionTopN
    /\ gsc_metrics_df = <<>>
    /\ url_keywords_map = <<>>
    /\ search_volume_map = <<>>
    /\ links_df = <<>>
    /\ top_related = SliderDefault
    /\ analysis_df = <<>>
    /\ scored_df = <<>>
    /\ none_frames = {"links_df", "embeddings_map", "gsc_data", "gsc_metrics_df",
                      "analysis_df"}
    /\ op = "none"
    /\ calls = <<>>

\* the handler of "Process Files" on one upload
ProcessFiles(u) ==
    IF ~u.complete
    THEN /\ op' = "process_files_warning"
         /\ calls' = Append(calls, "process_files_warning")
         /\ UNCHANGED <<embeddings_map, top_k, related_pages_map, gsc_data, top_n,
                        gsc_metrics_df, url_keywords_map, search_volume_map,
                        links_df, top_related, analysis_df, scored_df,
                        none_frames>>
    ELSE /\ links_df' = u.links
         /\ embeddings_map' = u.embeddings
         /\ gsc_data' = u.gsc
         /\ gsc_metrics_df' = IF u.has_gsc THEN calculate_url_metrics(u.gsc)
                              ELSE gsc_metrics_df
         /\ none_frames' =
               IF u.has_gsc
               THEN none_frames \ {"links_df", "embeddings_map", "gsc_data",
                                   "gsc_metrics_df"}
               ELSE (none_frames \ {"links_df", "embeddings_map"}) \cup {"gsc_data"}
         /\ op' = "process_files"
         /\ calls' = Append(calls, "process_files")
         /\ UNCHANGED <<top_k, related_pages_map, top_n, url_keywords_map,
                        search_volume_map, top_related, analysis_df, scored_df>>

\* the Analyze Links tab shows its buttons
AnalyzeTabEnabled == Len(embeddings_map) > 0 /\ "links_df" \notin none_frames

\* the handler of "Find Related Pages" with the slider at k
FindRelatedPages(k) ==
    /\ AnalyzeTabEnabled
    /\ related_pages_map' \in compute_related_pages(embeddings_map, k)
    /\ top_k' = k
    /\ op' = "find_related_pages"
    /\ calls' = Append(calls, "find_related_pages")
    /\ UNCHANGED <<embeddings_map, gsc_data, top_n, gsc_metrics_df,
                   url_keywords_map, search_volume_map, links_df, top_related,
                   analysis_df, scored_df, none_frames>>

\* the handler of "Extract Keywords": from the GSC log when there is one,
\* else (no AI client) the keyword map is reset
ExtractKeywords ==
    /\ AnalyzeTabEnabled
    /\ url_keywords_map' =
          IF "gsc_data" \notin none_frames /\ Len(gsc_data) > 0
          THEN extract_top_keywords_by_url(gsc_data, SessionTopN)
          ELSE <<>>
    /\ gsc_data' = IF "gsc_data" \notin none_frames /\ Len(gsc_data) > 0
                   THEN log_after_extract(gsc_data) ELSE gsc_data
    /\ op' = "extract_keywords"
    /\ calls' = Append(calls, "extract_keywords")
    /\ UNCHANGED <<embeddings_map, top_k, related_pages_map, top_n,
                   gsc_metrics_df, search_volume_map, links_df, top_related,
                   analysis_df, scored_df, none_frames>>

\* the handler of "Run Full Analysis" with the slider at k
RunFullAnalysis(k) ==
    /\ AnalyzeTabEnabled
    /\ IF Len(related_pages_map) = 0
       THEN /\ op' = "run_full_analysis_warning"
            /\ calls' = Append(calls, "run_full_analysis_warning")
            /\ UNCHANGED <<top_related, analysis_df, none_frames>>
       ELSE /\ analysis_df' = score_opportunities(
                   analyze_with_performance_data(links_df, related_pages_map,
                       gsc_metrics_df, search_volume_map, url_keywords_map, k))
            /\ top_related' = k
            /\ none_frames' = none_frames \ {"analysis_df"}
            /\ op' = "run_full_analysis"
            /\ calls' = Append(calls, "run_full_analysis")
    /\ UNCHANGED <<embeddings_map, top_k, related_pages_map, gsc_data, top_n,
                   gsc_metrics_df, url_keywords_map, search_volume_map, links_df,
                   scored_df>>

NextSession ==
    /\ Len(calls) < MaxSessionCalls
    /\ \/ \E u \in Uploads : ProcessFiles(u)
       \/ \E k \in SliderValues : FindRelatedPages(k)
       \/ ExtractKeywords
       \/ \E k \in SliderValues : RunFullAnalysis(k)

SpecSession == InitSession /\ [][NextSession]_vars

(***************************************************************************)
(* Properties of compute_related_pages.                                    *)
(***************************************************************************)
RelatedReturned == op = "compute_related_pages"

\* position of URL u in the embedding map's iteration order
IndexOf(emb, u) == CHOOSE i \in 1..Len(emb) : emb[i].url = u

\* the neighbour list returned for the page at position i
Neighbours(i) == related_pages_map[i].related

\* C1: the neighbour list returned for a page p never contains p itself.
NeighbourExclusion ==
    RelatedReturned =>
        \A i \in 1..Len(related_pages_map) :
            related_pages_map[i].url \notin Range(Neighbours(i))

\* a page with two neighbours listed, out of at least three pages
NeighbourExclusionWitness ==
    /\ RelatedReturned
    /\ Len(embeddings_map) >= 3
    /\ \E i \in 1..Len(related_pages_map) : Len(Neighbours(i)) >= 2

\* C2: every neighbour list is ordered by non-increasing similarity to its
\* page, and no page left out of the list is strictly more similar to the
\* page than a page in the list.
NeighbourOrdering ==
    RelatedReturned =>
        \A i \in 1..Len(related_pages_map) :
            LET l == Neighbours(i)
                ix(a) == IndexOf(embeddings_map, l[a])
            IN  /\ \A a, b \in 1..Len(l) :
                       a < b => ~SimLess(embeddings_map, i, ix(a), i, ix(b))
                /\ \A a \in 1..Len(l), j \in 1..Len(embeddings_map) :
                       (j # i /\ embeddings_map[j].url \notin Range(l))
                           => ~SimLess(embeddings_map, i, ix(a), i, j)

\* a list of two neighbours of strictly different similarity
NeighbourOrderingWitness ==
    /\ RelatedReturned
    /\ \E i \in 1..Len(related_pages_map) :
           LET l == Neighbours(i)
           IN  /\ Len(l) = 2
               /\ SimLess(embeddings_map, i, IndexOf(embeddings_map, l[2]),
                                          i, IndexOf(embeddings_map, l[1]))

\* a list cut at one neighbour, and a page left out that is strictly less
\* similar than the neighbour kept
NeighbourOrderingCut ==
    /\ RelatedReturned
    /\ \E i \in 1..Len(related_pages_map) :
           LET l == Neighbours(i)
           IN  /\ Len(l) = 1
               /\ \E j \in 1..Len(embeddings_map) :
                      /\ j # i
                      /\ embeddings_map[j].url \notin Range(l)
                      /\ SimLess(embeddings_map, i, j,
                                 i, IndexOf(embeddings_map, l[1]))

\* C3: for every top_k >= 0, top_k = 0 included, each neighbour list holds
\* at most top_k URLs.
AtMostTopK ==
    RelatedReturned =>
        \A i \in 1..Len(related_pages_map) : Len(Neighbours(i)) <= top_k

\* C4: for N pages and top_k >= 1 the keys of the returned map are the N
\* URLs in input iteration order, and each list holds exactly
\* min(top_k, N-1) distinct URLs of other pages (all N-1 of them when fewer
\* than top_k other pages exist).
KeysAndListLength ==
    (RelatedReturned /\ top_k >= 1) =>
        /\ Len(related_pages_map) = Len(embeddings_map)
        /\ \A i \in 1..Len(related_pages_map) :
               LET l == Neighbours(i)
                   others == Range(urls(embeddings_map)) \ {embeddings_map[i].url}
               IN  /\ related_pages_map[i].url = embeddings_map[i].url
                   /\ Len(l) = Min(top_k, Len(embeddings_map) - 1)
                   /\ Injective(l)
                   /\ Range(l) \subseteq others
                   /\ (Len(embeddings_map) - 1 <= top_k => Range(l) = others)

\* three pages, one of them a zero vector, in descending dict order, and
\* top_k larger than the two other pages that exist
KeysAndListLengthWitness ==
    /\ RelatedReturned
    /\ top_k = 3
    /\ Len(embeddings_map) = 3
    /\ embeddings_map[1].url = 3
    /\ \E i \in 1..3 : embeddings_map[i].vec = <<0, 0>>
    /\ \A i \in 1..3 : Len(Neighbours(i)) = 2

\* top_k smaller than the number of other pages: the list is cut at top_k
KeysAndListLengthCut ==
    /\ RelatedReturned
    /\ top_k = 1
    /\ Len(embeddings_map) = 3
    /\ \A i \in 1..3 : Len(Neighbours(i)) = 1

\* C5: of two candidate pages with exactly equal similarity to page p, the
\* one earlier in the embedding map's iteration order comes first in p's
\* neighbour list, and at the top_k cut-off the earlier one is kept.
StableTieOrder ==
    RelatedReturned =>
        \A i \in 1..Len(related_pages_map) :
            \A j, k \in 1..Len(embeddings_map) :
                (j # i /\ k # i /\ j < k /\ SimEq(embeddings_map, i, j, i, k)
                    /\ embeddings_map[k].url \in Range(Neighbours(i)))
                => \E a, b \in 1..Len(Neighbours(i)) :
                      /\ a < b
                      /\ Neighbours(i)[a] = embeddings_map[j].url
                      /\ Neighbours(i)[b] = embeddings_map[k].url

(***************************************************************************)
(* Properties of GSCDataProcessor.                                         *)
(***************************************************************************)
KeywordsReturned == op = "extract_top_keywords_by_url"

MetricsReturned == op = "calculate_url_metrics"

\* the values of one column over the records of a page
PageValues(page, col) == {gsc_data[r][col] : r \in GroupRows(gsc_data, page)}

\* the n largest distinct values of S (all of S when it has fewer than n)
LargestValues(S, n) ==
    CHOOSE T \in SUBSET S :
        /\ Cardinality(T) = Min(n, Cardinality(S))
        /\ \A c \in T, d \in S \ T : c > d

\* the records of a page whose value is among the top_n largest distinct
\* values of the page, i.e. whose dense rank is at most top_n
RankedRows(page, col) ==
    {r \in GroupRows(gsc_data, page) :
        gsc_data[r][col] \in LargestValues(PageValues(page, col), top_n)}

\* the non-empty queries of the records R, in the order of the log
QueriesOf(R) ==
    LET ordered == SortedKeys({r \in R : gsc_data[r].query # ""})
    IN  [i \in 1..Len(ordered) |-> gsc_data[ordered[i]].query]

\* the map that selecting by dense rank over column col yields
SelectedBy(col) ==
    LET pages == SortedKeys({p \in GscPages : RankedRows(p, col) # {}})
    IN  [i \in 1..Len(pages) |->
           [page |-> pages[i], kws |-> QueriesOf(RankedRows(pages[i], col))]]

\* C6: each page's records are ranked by clicks with dense ranking, and the
\* page's list holds the (non-empty) queries of every record whose dense
\* rank is at most top_n: all records tied on one of the top_n largest
\* distinct click values of the page, so the list may be longer than top_n.
DenseRankTopKeywords ==
    KeywordsReturned => url_keywords_map = SelectedBy("clicks")

\* a list longer than top_n because of a tie, for a page that also has a
\* record ranked out
DenseRankTopKeywordsWitness ==
    /\ KeywordsReturned
    /\ top_n >= 1
    /\ \E i \in 1..Len(url_keywords_map) :
          /\ Len(url_keywords_map[i].kws) > top_n
          /\ \E r \in GroupRows(gsc_data, url_keywords_map[i].page) :
                DenseRank(gsc_data, r, "clicks") > top_n

\* the queries of the scenario whose record has one of the click values C
TieQueries(C) == {TieRows[i].query : i \in {j \in 1..Len(TieRows) : TieRows[j].clicks \in C}}

\* C7 as stated: for clicks [5,5,3,3,1] and top_n = 2 exactly the 2 queries
\* with clicks 5 are returned; those with clicks 3 and 1 are excluded.
TieScenarioTwoQueries ==
    KeywordsReturned =>
        /\ Len(url_keywords_map) = 1
        /\ Len(url_keywords_map[1].kws) = 2
        /\ Range(url_keywords_map[1].kws) = TieQueries({5})

\* C7 amended: for clicks [5,5,3,3,1] and top_n = 2 exactly the 4 queries
\* with clicks 5 and 3 (dense ranks 1 and 2) are returned; only the query
\* with clicks 1 is excluded.
TieScenarioFourQueries ==
    KeywordsReturned =>
        /\ Len(url_keywords_map) = 1
        /\ url_keywords_map[1].page = 1
        /\ Len(url_keywords_map[1].kws) = 4
        /\ Range(url_keywords_map[1].kws) = TieQueries({5, 3})

\* the scenario with the clicks-1 record first in the log
TieScenarioWitness ==
    /\ KeywordsReturned
    /\ top_n = 2
    /\ Len(gsc_data) = 5
    /\ gsc_data[1].clicks = 1
    /\ Len(url_keywords_map) = 1

\* C8: when every record of a non-empty log has clicks = 0, each page's
\* keywords are selected by dense rank over impressions (top_n ranks), so a
\* query whose impressions rank is above top_n is not returned.
ImpressionsFallback ==
    (KeywordsReturned /\ Len(gsc_data) > 0
        /\ \A r \in 1..Len(gsc_data) : gsc_data[r].clicks = 0)
    => url_keywords_map = SelectedBy("impressions")

\* the sum of a column over a set R of records of the log
RECURSIVE SumOver(_, _)
SumOver(R, col) ==
    IF R = {} THEN 0
    ELSE LET r == CHOOSE x \in R : TRUE
         IN  gsc_data[r][col] + SumOver(R \ {r}, col)

\* C9: calculate_url_metrics returns exactly one row per distinct page of
\* the log, holding the number of distinct queries, the sum of clicks and
\* the sum of impressions over all records of the page.
UrlMetricsPerPage ==
    MetricsReturned =>
        /\ \A i, j \in 1..Len(gsc_metrics_df) :
              gsc_metrics_df[i].page = gsc_metrics_df[j].page => i = j
        /\ {gsc_metrics_df[i].page : i \in 1..Len(gsc_metrics_df)}
              = {gsc_data[r].page : r \in 1..Len(gsc_data)}
        /\ \A i \in 1..Len(gsc_metrics_df) :
              LET row == gsc_metrics_df[i]
                  R == {r \in 1..Len(gsc_data) : gsc_data[r].page = row.page}
              IN  /\ row.url_queries_count
                        = Cardinality({q \in GscQueries : \E r \in R : gsc_data[r].query = q})
                  /\ row.url_clicks = SumOver(R, "clicks")
                  /\ row.url_impressions = SumOver(R, "impressions")

\* two pages, one of them with the same query in two records
UrlMetricsPerPageWitness ==
    /\ MetricsReturned
    /\ Len(gsc_metrics_df) = 2
    /\ \E i \in 1..2 :
          /\ gsc_metrics_df[i].url_queries_count = 1
          /\ gsc_metrics_df[i].url_clicks = 3
          /\ Cardinality(GroupRows(gsc_data, gsc_metrics_df[i].page)) = 2

(***************************************************************************)
(* Properties of EnhancedLinkAnalyzer.                                     *)
(***************************************************************************)
AnalysisReturned == op = "analyze_with_performance_data"

\* the keywords the keyword map holds for a page (none when it has no entry)
PageKeywords(page) ==
    LET E == {i \in 1..Len(url_keywords_map) : url_keywords_map[i].page = page}
    IN  IF E = {} THEN {}
        ELSE Range(url_keywords_map[CHOOSE i \in E : TRUE].kws)

\* the volume of a keyword: under its lower-cased form if that key is
\* present, else under its original casing, else 0
KeywordVolume(kw) ==
    CASE Lower(kw) \in DOMAIN search_volume_map -> search_volume_map[Lower(kw)]
      [] Lower(kw) \notin DOMAIN search_volume_map /\ kw \in DOMAIN search_volume_map
            -> search_volume_map[kw]
      [] OTHER -> 0

\* C10: the Monthly Search Volume of each page is the maximum (not the sum)
\* of its keywords' volumes; a page with no keywords or only zero volumes
\* gets 0.
SearchVolumeIsMaximum ==
    AnalysisReturned =>
        \A r \in 1..Len(analysis_df) :
            LET V == {KeywordVolume(kw) : kw \in PageKeywords(analysis_df[r].target_url)}
            IN  /\ V = {} => analysis_df[r].msv = 0
                /\ V # {} => /\ analysis_df[r].msv \in V
                             /\ \A v \in V : v <= analysis_df[r].msv
                /\ V = {0} => analysis_df[r].msv = 0

\* a page with two keywords of different positive volume, one found under
\* its original casing only, while another page has no keywords
SearchVolumeIsMaximumWitness ==
    /\ AnalysisReturned
    /\ Len(analysis_df) = 2
    /\ "seo" \notin DOMAIN search_volume_map
    /\ \E r \in 1..2 :
          /\ PageKeywords(analysis_df[r].target_url) = {"SEO", "links"}
          /\ KeywordVolume("SEO") = 2
          /\ KeywordVolume("links") = 1
          /\ analysis_df[r].msv = 2
    /\ \E r \in 1..2 :
          /\ PageKeywords(analysis_df[r].target_url) = {}
          /\ analysis_df[r].msv = 0

\* the neighbour list the related-pages map holds for row r of the table
RowNeighbours(r) == related_pages_map[r].related

\* the rows of the metrics table that belong to a page: a page is
\* identified by its trimmed URL
MetricsRowsOf(page) ==
    {i \in 1..Len(gsc_metrics_df) : Strip(gsc_metrics_df[i].page) = page}

\* C11: the table has exactly one row per key of the related-pages map, in
\* that map's iteration order, and no row for a URL that only the metrics,
\* keyword or link inputs name.
RowsFollowRelatedMap ==
    AnalysisReturned =>
        /\ Len(analysis_df) = Len(related_pages_map)
        /\ \A r \in 1..Len(analysis_df) :
              analysis_df[r].target_url = related_pages_map[r].url
        /\ \A r \in 1..Len(analysis_df) :
              \E k \in 1..Len(related_pages_map) :
                  related_pages_map[k].url = analysis_df[r].target_url

\* keys 2 then 1, while page 3 is named only by the metrics table and by a
\* link edge
RowsFollowRelatedMapWitness ==
    /\ AnalysisReturned
    /\ Len(analysis_df) = 2
    /\ analysis_df[1].target_url = 2
    /\ analysis_df[2].target_url = 1
    /\ \E i \in 1..Len(gsc_metrics_df) : gsc_metrics_df[i].page = 3
    /\ \E e \in 1..Len(links_df) : links_df[e].Destination = 3

\* C12: every row has exactly top_related neighbour slots; slot i holds the
\* i-th URL of the page's neighbour list, or the empty string when the
\* list has fewer than i URLs, whether the list is shorter or longer than
\* top_related.
SlotsPerRow ==
    AnalysisReturned =>
        \A r \in 1..Len(analysis_df) :
            /\ Len(analysis_df[r].slots) = top_related
            /\ \A i \in 1..top_related :
                  /\ i <= Len(RowNeighbours(r))
                        => analysis_df[r].slots[i].url = RowNeighbours(r)[i]
                  /\ i > Len(RowNeighbours(r))
                        => analysis_df[r].slots[i].url = EmptyUrl

\* one row whose list is longer than top_related and one whose list is shorter
SlotsPerRowWitness ==
    /\ AnalysisReturned
    /\ top_related >= 1
    /\ \E r \in 1..Len(analysis_df) : Len(RowNeighbours(r)) > top_related
    /\ \E r \in 1..Len(analysis_df) : Len(RowNeighbours(r)) < top_related

\* some edge leads from source to destination
EdgeExists(source, destination) ==
    \E e \in 1..Len(links_df) :
        links_df[e].Source = source /\ links_df[e].Destination = destination

\* C13: the status of a slot is the empty string when the row's page or the
\* slot's URL is empty; otherwise it is 'Exists' if and only if some edge has
\* Source = the row's page and Destination = the slot's URL (an edge in the
\* other direction alone does not count), and 'Missing' if there is none.
LinkStatusDirected ==
    AnalysisReturned =>
        \A r \in 1..Len(analysis_df) :
            \A i \in 1..Len(analysis_df[r].slots) :
                LET page == analysis_df[r].target_url
                    slot == analysis_df[r].slots[i]
                IN  /\ (page = EmptyUrl \/ slot.url = EmptyUrl) => slot.status = ""
                    /\ (page # EmptyUrl /\ slot.url # EmptyUrl) =>
                          /\ slot.status \in {"Exists", "Missing"}
                          /\ slot.status = "Exists" <=> EdgeExists(page, slot.url)

\* a slot whose only edge leads from the neighbour to the page, and an
\* empty slot
LinkStatusDirectedWitness ==
    /\ AnalysisReturned
    /\ \E r \in 1..Len(analysis_df) :
          \E i, j \in 1..Len(analysis_df[r].slots) :
              /\ analysis_df[r].slots[i].url # EmptyUrl
              /\ EdgeExists(analysis_df[r].slots[i].url, analysis_df[r].target_url)
              /\ analysis_df[r].slots[i].status = "Missing"
              /\ analysis_df[r].slots[j].url = EmptyUrl
              /\ analysis_df[r].slots[j].status = ""

\* a slot whose edge exists in the direction page -> neighbour
LinkStatusExists ==
    /\ AnalysisReturned
    /\ \E r \in 1..Len(analysis_df) :
          \E i \in 1..Len(analysis_df[r].slots) :
              analysis_df[r].slots[i].status = "Exists"

\* C14: a page of the related-pages map that is absent from the metrics
\* table gets queries = clicks = impressions = 0; a page absent from the
\* keyword map, or whose keywords are all absent from the volume map, gets
\* demand 0; a page present in the metrics table keeps its aggregates.
LookupMissDefaults ==
    AnalysisReturned =>
        \A r \in 1..Len(analysis_df) :
            LET row == analysis_df[r]
                M == MetricsRowsOf(row.target_url)
                K == PageKeywords(row.target_url)
            IN  /\ M = {} => /\ row.queries = 0
                             /\ row.clicks = 0
                             /\ row.impressions = 0
                /\ \A i \in M : /\ row.queries = gsc_metrics_df[i].url_queries_count
                                /\ row.clicks = gsc_metrics_df[i].url_clicks
                                /\ row.impressions = gsc_metrics_df[i].url_impressions
                /\ (\A kw \in K : Lower(kw) \notin DOMAIN search_volume_map
                                  /\ kw \notin DOMAIN search_volume_map)
                      => row.msv = 0

\* a non-empty metrics table without page 2, a keyword map without page 2,
\* and page 1 with metrics and with a keyword the volume map does not have
LookupMissDefaultsWitness ==
    /\ AnalysisReturned
    /\ Len(gsc_metrics_df) > 0
    /\ Len(url_keywords_map) > 0
    /\ \E r \in 1..Len(analysis_df) :
          /\ analysis_df[r].target_url = 2
          /\ MetricsRowsOf(2) = {}
          /\ PageKeywords(2) = {}
          /\ analysis_df[r].clicks = 0
          /\ analysis_df[r].msv = 0
    /\ \E r \in 1..Len(analysis_df) :
          /\ analysis_df[r].target_url = 1
          /\ MetricsRowsOf(1) # {}
          /\ analysis_df[r].clicks > 0
          /\ PageKeywords(1) = {"links"}
          /\ "links" \notin DOMAIN search_volume_map
          /\ analysis_df[r].msv = 0

(***************************************************************************)
(* Properties of score_opportunities.                                       *)
(***************************************************************************)
ScoreReturned == op = "score_opportunities"

Tiers == {"Low", "Medium", "High"}

\* the two series that score_opportunities normalizes
NormalizedSeries == {opp(analysis_df), ctr(analysis_df)}

\* C15: ctr is clicks / impressions, and 0 when impressions is 0; a row with
\* impressions = 0 and clicks = 0 stays in the output and receives an
\* OppScore that is not NaN and one of the three priority tiers.
ZeroImpressionCtr ==
    ScoreReturned =>
        /\ Len(scored_df) = Len(analysis_df)
        /\ \A r \in 1..Len(analysis_df) :
              LET row == analysis_df[r]
              IN  /\ ctr(analysis_df)[r] =
                        IF row.impressions = 0 THEN Rat(0, 1)
                        ELSE Rat(row.clicks, row.impressions)
                  /\ scored_df[r].target_url = row.target_url
                  /\ (row.impressions = 0 /\ row.clicks = 0) =>
                        /\ ~IsNaN(scored_df[r].OppScore)
                        /\ scored_df[r].priority \in Tiers

\* a row without impressions and clicks scored together with a row whose
\* ctr is positive
ZeroImpressionCtrWitness ==
    /\ ScoreReturned
    /\ \E r, q \in 1..Len(scored_df) :
          /\ analysis_df[r].impressions = 0
          /\ analysis_df[r].clicks = 0
          /\ scored_df[r].priority \in Tiers
          /\ analysis_df[q].impressions > 0
          /\ analysis_df[q].clicks > 0

\* C16 as stated: both series are min-max normalized: whenever the maximum
\* of the series exceeds its minimum, the row with the minimum value
\* normalizes to 0 and the row with the maximum value normalizes to 1.
MinMaxNormalized ==
    ScoreReturned =>
        \A s \in NormalizedSeries :
            (Len(s) > 0 /\ RatLess(series_min(s), series_max(s))) =>
                \A r \in 1..Len(s) :
                    /\ s[r] = series_min(s) => norm(s)[r] = Rat(0, 1)
                    /\ s[r] = series_max(s) => norm(s)[r] = Rat(1, 1)

\* C16 amended: both series are divided by their maximum when it is
\* positive (and pass through unchanged otherwise): the row with the
\* maximum value normalizes to 1, the row with the minimum value to
\* minimum / maximum, which is 0 only when the minimum is 0; every
\* normalized value lies in [0, 1], and OppScore is built from them.
MaxNormalized ==
    ScoreReturned =>
        /\ \A s \in NormalizedSeries :
              \A r \in 1..Len(s) :
                  IF RatLess(Rat(0, 1), series_max(s))
                  THEN /\ norm(s)[r] = RatDiv(s[r], series_max(s))
                       /\ s[r] = series_max(s) => norm(s)[r] = Rat(1, 1)
                       /\ s[r] = series_min(s) =>
                             /\ norm(s)[r] = RatDiv(series_min(s), series_max(s))
                             /\ norm(s)[r] = Rat(0, 1) <=> series_min(s) = Rat(0, 1)
                       /\ RatLeq(Rat(0, 1), norm(s)[r])
                       /\ RatLeq(norm(s)[r], Rat(1, 1))
                  ELSE norm(s)[r] = s[r]
        /\ \A r \in 1..Len(scored_df) :
              scored_df[r].OppScore =
                  opp_score(norm(opp(analysis_df))[r], norm(ctr(analysis_df))[r])

\* a series whose minimum is positive and smaller than its maximum
MaxNormalizedWitness ==
    /\ ScoreReturned
    /\ \E s \in NormalizedSeries :
          /\ Len(s) > 1
          /\ RatLess(Rat(0, 1), series_min(s))
          /\ RatLess(series_min(s), series_max(s))
          /\ \E r \in 1..Len(s) :
                /\ s[r] = series_min(s)
                /\ RatLess(Rat(0, 1), norm(s)[r])

\* C17: the tier is a function of OppScore alone: scores in [0, 0.33] give
\* Low, scores in (0.33, 0.66] give Medium, scores in (0.66, 1.0] give High;
\* so 0 and 0.33 are Low, 0.66 is Medium and 1.0 is High.
TierBoundaries ==
    ScoreReturned =>
        \A r \in 1..Len(scored_df) :
            LET v == scored_df[r].OppScore
                t == scored_df[r].priority
            IN  /\ RatLeq(Rat(0, 1), v) /\ RatLeq(v, Rat(1, 1))
                /\ RatLeq(v, Rat(33, 100)) => t = "Low"
                /\ (RatLess(Rat(33, 100), v) /\ RatLeq(v, Rat(66, 100))) => t = "Medium"
                /\ RatLess(Rat(66, 100), v) => t = "High"

\* one table with the scores 0.33, 0.66 and 1.0
TierBoundariesWitness ==
    /\ ScoreReturned
    /\ \E r, q, p \in 1..Len(scored_df) :
          /\ scored_df[r].OppScore = Rat(33, 100)
          /\ scored_df[r].priority = "Low"
          /\ scored_df[q].OppScore = Rat(66, 100)
          /\ scored_df[q].priority = "Medium"
          /\ scored_df[p].OppScore = Rat(1, 1)
          /\ scored_df[p].priority = "High"

\* a table with the score 0 next to a score strictly inside a bin
TierZeroIsLow ==
    /\ ScoreReturned
    /\ \E r, q \in 1..Len(scored_df) :
          /\ scored_df[r].OppScore = Rat(0, 1)
          /\ scored_df[r].priority = "Low"
          /\ RatLess(Rat(33, 100), scored_df[q].OppScore)
          /\ RatLess(scored_df[q].OppScore, Rat(66, 100))

\* C18: a table of a single row with impressions > 0 and clicks = 0 gets
\* OppScore = 1.0 and the tier High.
LoneRowScoresHigh ==
    (/\ ScoreReturned
     /\ Len(analysis_df) = 1
     /\ analysis_df[1].impressions > 0
     /\ analysis_df[1].clicks = 0)
        => /\ Len(scored_df) = 1
           /\ scored_df[1].OppScore = Rat(1, 1)
           /\ scored_df[1].priority = "High"

LoneRowScoresHighWitness ==
    /\ ScoreReturned
    /\ Len(analysis_df) = 1
    /\ analysis_df[1].impressions = 60
    /\ analysis_df[1].clicks = 0
    /\ scored_df[1].priority = "High"

\* C19: a series whose maximum is 0 passes through normalization
\* unchanged; for a non-empty table in which every row has impressions = 0
\* and clicks = 0 every row receives OppScore = 0.4.
ZeroMaximumPassThrough ==
    ScoreReturned =>
        /\ \A s \in NormalizedSeries :
              (Len(s) > 0 /\ series_max(s) = Rat(0, 1)) => norm(s) = s
        /\ (/\ Len(analysis_df) > 0
            /\ \A r \in 1..Len(analysis_df) :
                  analysis_df[r].impressions = 0 /\ analysis_df[r].clicks = 0)
              => /\ Len(scored_df) = Len(analysis_df)
                 /\ \A r \in 1..Len(scored_df) :
                       scored_df[r].OppScore = Rat(4, 10)

\* two rows without impressions and clicks
ZeroMaximumPassThroughWitness ==
    /\ ScoreReturned
    /\ Len(analysis_df) >= 2
    /\ \A r \in 1..Len(analysis_df) :
          analysis_df[r].impressions = 0 /\ analysis_df[r].clicks = 0
    /\ \A r \in 1..Len(scored_df) : scored_df[r].OppScore = Rat(4, 10)

(***************************************************************************)
(* Properties of the core operations on empty input.                        *)
(***************************************************************************)
\* C20: each core operation returns an empty result on empty input:
\* compute_related_pages an empty map on an empty embedding set,
\* calculate_url_metrics a table with no rows on an empty or missing log,
\* extract_top_keywords_by_url an empty map on an empty or missing log,
\* analyze_with_performance_data a table with no rows on an empty
\* related-pages map, and score_opportunities its input unchanged (an empty
\* table stays an empty table, a missing one stays missing).
EmptyInputEmptyResult ==
    /\ (RelatedReturned /\ Len(embeddings_map) = 0) => related_pages_map = <<>>
    /\ (MetricsReturned /\ Len(gsc_data) = 0)
          => gsc_metrics_df = <<>> /\ "gsc_metrics_df" \notin none_frames
    /\ (KeywordsReturned /\ Len(gsc_data) = 0) => url_keywords_map = <<>>
    /\ (AnalysisReturned /\ Len(related_pages_map) = 0)
          => analysis_df = <<>> /\ "analysis_df" \notin none_frames
    /\ (ScoreReturned /\ Len(analysis_df) = 0)
          => /\ scored_df = analysis_df
             /\ "scored_df" \in none_frames <=> "analysis_df" \in none_frames

\* score_opportunities has returned on a missing table
EmptyInputEmptyResultWitness ==
    /\ ScoreReturned
    /\ Len(analysis_df) = 0
    /\ "analysis_df" \in none_frames
    /\ "scored_df" \in none_frames

\* score_opportunities has returned on an empty table
EmptyTableScored ==
    /\ ScoreReturned
    /\ Len(analysis_df) = 0
    /\ "analysis_df" \notin none_frames
    /\ "scored_df" \notin none_frames

\* calculate_url_metrics has returned on a missing log
MissingLogAggregated ==
    MetricsReturned /\ "gsc_data" \in none_frames /\ gsc_metrics_df = <<>>

\* extract_top_keywords_by_url has returned on a missing log
MissingLogKeywords ==
    KeywordsReturned /\ "gsc_data" \in none_frames /\ url_keywords_map = <<>>

\* compute_related_pages has returned on an empty embedding set
EmptyEmbeddingsRelated ==
    RelatedReturned /\ embeddings_map = <<>> /\ related_pages_map = <<>>

\* analyze_with_performance_data has returned on an empty related-pages
\* map with top_related > 0
EmptyRelatedAnalyzed ==
    /\ AnalysisReturned
    /\ related_pages_map = <<>>
    /\ top_related > 0
    /\ analysis_df = <<>>

(***************************************************************************)
(* Further properties of extract_top_keywords_by_url.                       *)
(***************************************************************************)
\* C21: a URL is a key of the returned map only if at least one record of
\* the log has that URL as its page; a page with no records gets no entry,
\* not an entry with an empty list.
KeysHaveRecords ==
    KeywordsReturned =>
        \A i \in 1..Len(url_keywords_map) :
            GroupRows(gsc_data, url_keywords_map[i].page) # {}

\* a log with records of page 1 only: page 1 has an entry, page 2 has none
KeysHaveRecordsWitness ==
    /\ KeywordsReturned
    /\ top_n >= 1
    /\ GroupRows(gsc_data, 1) # {}
    /\ GroupRows(gsc_data, 2) = {}
    /\ Len(url_keywords_map) = 1
    /\ url_keywords_map[1].page = 1

\* the positions of query q in the list of entry i
PositionsOf(i, q) ==
    {a \in 1..Len(url_keywords_map[i].kws) : url_keywords_map[i].kws[a] = q}

\* C30 as stated: the list of a page is ranked by clicks descending: a
\* query with more clicks appears before a query of the same page with
\* fewer clicks, whatever the order of the records in the log (stated for
\* queries that occur in one record of the page only).
ListRankedByClicks ==
    KeywordsReturned =>
        \A i \in 1..Len(url_keywords_map) :
            LET rows == GroupRows(gsc_data, url_keywords_map[i].page)
                once(r) == \A k \in rows : gsc_data[k].query = gsc_data[r].query => k = r
            IN  \A r, q \in rows :
                    (/\ gsc_data[r].clicks > gsc_data[q].clicks
                     /\ once(r)
                     /\ once(q)) =>
                        \A a \in PositionsOf(i, gsc_data[r].query),
                           b \in PositionsOf(i, gsc_data[q].query) : a < b

\* C30 amended: the list of a page holds the selected queries in the order
\* of their records in the log; it is not sorted by clicks, so a query with
\* fewer clicks precedes one with more clicks when its record comes first.
ListInLogOrder ==
    KeywordsReturned =>
        \A i \in 1..Len(url_keywords_map) :
            LET kws == url_keywords_map[i].kws
                rows == {r \in GroupRows(gsc_data, url_keywords_map[i].page) :
                            gsc_data[r].query # ""}
            IN  \E f \in [1..Len(kws) -> rows] :
                    /\ \A a \in 1..Len(kws) : gsc_data[f[a]].query = kws[a]
                    /\ \A a, b \in 1..Len(kws) : a < b => f[a] < f[b]
                    /\ \A r \in rows :
                          DenseRank(gsc_data, r, "clicks") <= top_n
                              <=> \E a \in 1..Len(kws) : f[a] = r

\* two selected records of one page, the first with fewer clicks than the
\* second, and the list has their queries in that order
ListInLogOrderWitness ==
    /\ KeywordsReturned
    /\ \E i \in 1..Len(url_keywords_map) :
          \E r, q \in GroupRows(gsc_data, url_keywords_map[i].page) :
              /\ r < q
              /\ gsc_data[r].clicks < gsc_data[q].clicks
              /\ gsc_data[r].query # ""
              /\ gsc_data[q].query # ""
              /\ gsc_data[r].query # gsc_data[q].query
              /\ url_keywords_map[i].kws = <<gsc_data[r].query, gsc_data[q].query>>

Returned(name) == Len(calls') = Len(calls) + 1 /\ op' = name

\* C25: no core operation modifies its inputs: the embedding map, the log,
\* the keyword and volume maps, the link edges, the related-pages map and
\* the table passed in are the same after the call as before it; the
\* caller's log gains no rank column and the caller's table no score
\* columns.
InputsUnmodified ==
    [][/\ Returned("compute_related_pages")
            => embeddings_map' = embeddings_map /\ top_k' = top_k
       /\ Returned("calculate_url_metrics") => gsc_data' = gsc_data
       /\ Returned("extract_top_keywords_by_url")
            => gsc_data' = gsc_data /\ top_n' = top_n
       /\ Returned("analyze_with_performance_data")
            => /\ links_df' = links_df
               /\ related_pages_map' = related_pages_map
               /\ gsc_metrics_df' = gsc_metrics_df
               /\ search_volume_map' = search_volume_map
               /\ url_keywords_map' = url_keywords_map
       /\ Returned("score_opportunities")
            => /\ analysis_df' = analysis_df
               /\ ("analysis_df" \in none_frames') = ("analysis_df" \in none_frames)
      ]_vars

\* extract_top_keywords_by_url has returned on a log with a record, and the
\* log still has its four columns
InputsUnmodifiedWitness ==
    /\ KeywordsReturned
    /\ Len(url_keywords_map) = 1
    /\ Len(gsc_data) = 1
    /\ DOMAIN gsc_data[1] = {"page", "query", "clicks", "impressions"}

\* score_opportunities has returned on a table with a row: the result has
\* the score columns, the table passed in has not
ScoredTableUnmodified ==
    /\ ScoreReturned
    /\ Len(analysis_df) = 1
    /\ "OppScore" \in DOMAIN scored_df[1]
    /\ "OppScore" \notin DOMAIN analysis_df[1]

\* the columns that analyze_with_performance_data writes
ComposedColumns == {"target_url", "queries", "clicks", "impressions", "msv", "slots"}

\* C26: for a non-empty table the output of score_opportunities has the
\* rows of its input in the same order, every composed column (page,
\* metrics, demand, neighbour slots and statuses) has the same value, and
\* the only difference is the two added columns OppScore and
\* Implementation Priority.
ScoreAddsTwoColumns ==
    (ScoreReturned /\ Len(analysis_df) > 0) =>
        /\ Len(scored_df) = Len(analysis_df)
        /\ \A r \in 1..Len(analysis_df) :
              /\ DOMAIN analysis_df[r] = ComposedColumns
              /\ DOMAIN scored_df[r] = ComposedColumns \cup {"OppScore", "priority"}
              /\ \A c \in ComposedColumns : scored_df[r][c] = analysis_df[r][c]

\* a scored table of two rows that differ in page and metrics, with a
\* linked neighbour in a slot
ScoreAddsTwoColumnsWitness ==
    /\ ScoreReturned
    /\ Len(scored_df) = 2
    /\ scored_df[1].target_url # scored_df[2].target_url
    /\ scored_df[1].clicks # scored_df[2].clicks
    /\ \E r \in 1..2 :
          /\ Len(scored_df[r].slots) > 0
          /\ scored_df[r].slots[1].status = "Exists"
    /\ scored_df[1].OppScore # scored_df[2].OppScore

\* max(impressions - clicks, 0) of row r of the table
Unrealized(r) ==
    LET d == analysis_df[r].impressions - analysis_df[r].clicks
    IN  Rat(IF d > 0 THEN d ELSE 0, 1)

UnrealizedSeries == [r \in 1..Len(analysis_df) |-> Unrealized(r)]

\* C28: OppScore = 0.6 * a + 0.4 * (1 - b) with a the normalized
\* max(impressions - clicks, 0) and b the normalized ctr of the row; with
\* equal ctr a larger unrealized opportunity never gives a lower score, and
\* with equal unrealized opportunity a larger ctr never gives a higher one.
WeightedScore ==
    (ScoreReturned /\ Len(analysis_df) > 0) =>
        /\ \A r \in 1..Len(scored_df) :
              LET a == norm(UnrealizedSeries)[r]
                  b == norm(ctr(analysis_df))[r]
              IN  scored_df[r].OppScore =
                      RatAdd(RatMul(Rat(6, 10), a),
                             RatMul(Rat(4, 10), RatSub(Rat(1, 1), b)))
        /\ \A r, q \in 1..Len(scored_df) :
              /\ (/\ ctr(analysis_df)[r] = ctr(analysis_df)[q]
                  /\ RatLess(Unrealized(q), Unrealized(r)))
                    => RatLeq(scored_df[q].OppScore, scored_df[r].OppScore)
              /\ (/\ Unrealized(r) = Unrealized(q)
                  /\ RatLess(ctr(analysis_df)[q], ctr(analysis_df)[r]))
                    => RatLeq(scored_df[r].OppScore, scored_df[q].OppScore)

\* a pair of rows with equal ctr and different unrealized opportunity and a
\* pair with equal unrealized opportunity and different ctr, each with
\* strictly different scores
WeightedScoreWitness ==
    /\ ScoreReturned
    /\ \E r, q \in 1..Len(scored_df) :
          /\ ctr(analysis_df)[r] = ctr(analysis_df)[q]
          /\ RatLess(Unrealized(q), Unrealized(r))
          /\ RatLess(scored_df[q].OppScore, scored_df[r].OppScore)
    /\ \E r, q \in 1..Len(scored_df) :
          /\ Unrealized(r) = Unrealized(q)
          /\ RatLess(ctr(analysis_df)[q], ctr(analysis_df)[r])
          /\ RatLess(scored_df[r].OppScore, scored_df[q].OppScore)

\* C29: for a non-empty table of non-negative integer clicks and
\* impressions (clicks may exceed impressions) every OppScore lies in [0, 1]
\* and every row has one of the tiers Low, Medium, High.
ScoreInUnitIntervalWithTier ==
    (ScoreReturned /\ Len(analysis_df) > 0) =>
        \A r \in 1..Len(scored_df) :
            /\ ~IsNaN(scored_df[r].OppScore)
            /\ scored_df[r].OppScore.num >= 0
            /\ scored_df[r].OppScore.num <= scored_df[r].OppScore.den
            /\ scored_df[r].priority \in Tiers

\* a row with more clicks than impressions scored 0 and Low, next to a row
\* scored 1 and High
ScoreInUnitIntervalWithTierWitness ==
    /\ ScoreReturned
    /\ \E r, q \in 1..Len(scored_df) :
          /\ analysis_df[r].clicks > analysis_df[r].impressions
          /\ scored_df[r].OppScore = Rat(0, 1)
          /\ scored_df[r].priority = "Low"
          /\ scored_df[q].OppScore = Rat(1, 1)
          /\ scored_df[q].priority = "High"

(***************************************************************************)
(* Symmetry of the similarity matrix.                                       *)
(***************************************************************************)
\* C27: for all pages i and j with i # j the similarity computed for (i, j)
\* equals the one computed for (j, i): neither is smaller than the other.
SimilaritySymmetric ==
    RelatedReturned =>
        \A i, j \in 1..Len(embeddings_map) :
            i # j => /\ ~SimLess(embeddings_map, i, j, j, i)
                     /\ ~SimLess(embeddings_map, j, i, i, j)

\* two pages whose vectors have different norms and a non-zero dot
\* product, each in the other's list
SimilaritySymmetricWitness ==
    /\ RelatedReturned
    /\ \E i, j \in 1..Len(embeddings_map) :
          /\ i # j
          /\ Norm(embeddings_map[i].vec) # Norm(embeddings_map[j].vec)
          /\ Dot(embeddings_map[i].vec, embeddings_map[j].vec) # 0
          /\ embeddings_map[j].url \in Range(Neighbours(i))
          /\ embeddings_map[i].url \in Range(Neighbours(j))

(***************************************************************************)
(* Properties of the application session.                                   *)
(***************************************************************************)
RunReturned == op = "run_full_analysis"

\* C22: if the most recently processed upload had no performance log, the
\* table of the next Run Full Analysis has queries = 0, clicks = 0 and
\* impressions = 0 in every row.
NoLogNoMetrics ==
    (RunReturned /\ "gsc_data" \in none_frames) =>
        \A r \in 1..Len(analysis_df) :
            /\ analysis_df[r].queries = 0
            /\ analysis_df[r].clicks = 0
            /\ analysis_df[r].impressions = 0

\* C23: whenever Run Full Analysis composes the table, the related-pages
\* map it reads was computed from the loaded embedding set with the
\* selected K: its keys are the current embedding URLs, it is a result of
\* compute_related_pages on the current embeddings, and top_related equals
\* the K used to build it.
RelatedMapIsCurrent ==
    RunReturned =>
        /\ top_related = top_k
        /\ [i \in 1..Len(related_pages_map) |-> related_pages_map[i].url]
              = urls(embeddings_map)
        /\ related_pages_map \in compute_related_pages(embeddings_map, top_related)

====
